---- MODULE Spec2Model ----
(***************************************************************************)
(* Model of the dual-backend User CRUD handlers of                         *)
(* controllers/userController.js: the ten Express handlers, the Mongoose   *)
(* schema of models/User.js they run against, and the relational store    *)
(* reached through the Prisma client.                                      *)
(*                                                                         *)
(* Text is a sequence of one-character strings, so that parseInt, trim,    *)
(* toLowerCase and the e-mail pattern are computed character by character. *)
(***************************************************************************)
EXTENDS Integers, Sequences, FiniteSets

(***************************************************************************)
(* JavaScript values: one record shape for every value, so that any two    *)
(* values can be compared.                                                 *)
(***************************************************************************)
Undef == [t |-> "undefined", s |-> <<>>, n |-> 0]
Null == [t |-> "null", s |-> <<>>, n |-> 0]
NaN == [t |-> "NaN", s |-> <<>>, n |-> 0]
Str(s) == [t |-> "string", s |-> s, n |-> 0]
Num(n) == [t |-> "number", s |-> <<>>, n |-> n]

\* JavaScript truthiness, as used by `!name`, `age ? .. : ..`, `role || 'USER'`.
Truthy(v) ==
  CASE v.t = "string" -> v.s # <<>>
    [] v.t = "number" -> v.n # 0
    [] OTHER -> FALSE

isNaN(v) == v.t = "NaN"

(***************************************************************************)
(* Characters                                                              *)
(***************************************************************************)
DigitChars == <<"0", "1", "2", "3", "4", "5", "6", "7", "8", "9">>
LowerChars == <<"a", "b", "c", "d", "e", "f", "g", "h", "i", "j", "k", "l", "m",
                "n", "o", "p", "q", "r", "s", "t", "u", "v", "w", "x", "y", "z">>
UpperChars == <<"A", "B", "C", "D", "E", "F", "G", "H", "I", "J", "K", "L", "M",
                "N", "O", "P", "Q", "R", "S", "T", "U", "V", "W", "X", "Y", "Z">>
WhiteSpace == {" ", "\t", "\n", "\r"}

Range(f) == {f[i] : i \in DOMAIN f}
IndexOf(seq, c) == CHOOSE i \in DOMAIN seq : seq[i] = c

Digits == Range(DigitChars)
LowerLetters == Range(LowerChars)
UpperLetters == Range(UpperChars)
\* Hexadecimal digits 0-9, a-f, A-F.
HexDigits ==
  Digits \cup {LowerChars[i] : i \in 1..6} \cup {UpperChars[i] : i \in 1..6}
\* The regular expression class \w: [A-Za-z0-9_].
WordChars == LowerLetters \cup UpperLetters \cup Digits \cup {"_"}

IsDigit(c) == c \in Digits
DigitVal(c) == IndexOf(DigitChars, c) - 1
IsHexDigit(c) == c \in HexDigits
HexVal(c) ==
  IF IsDigit(c) THEN DigitVal(c)
  ELSE IF c \in LowerLetters THEN IndexOf(LowerChars, c) + 9
  ELSE IndexOf(UpperChars, c) + 9
IsWordChar(c) == c \in WordChars

(***************************************************************************)
(* String.prototype.trim / toLowerCase                                     *)
(***************************************************************************)
RECURSIVE TrimStart(_)
TrimStart(s) ==
  IF s # <<>> /\ Head(s) \in WhiteSpace THEN TrimStart(Tail(s)) ELSE s

RECURSIVE TrimEnd(_)
TrimEnd(s) ==
  IF s # <<>> /\ s[Len(s)] \in WhiteSpace
  THEN TrimEnd(SubSeq(s, 1, Len(s) - 1))
  ELSE s

Trim(s) == TrimEnd(TrimStart(s))

LowerChar(c) ==
  IF c \in UpperLetters THEN LowerChars[IndexOf(UpperChars, c)] ELSE c
ToLowerCase(s) == [i \in DOMAIN s |-> LowerChar(s[i])]

(***************************************************************************)
(* Number -> String (decimal text of an integer) and the global parseInt.  *)
(***************************************************************************)
RECURSIVE NatText(_)
NatText(n) ==
  IF n < 10 THEN <<DigitChars[n + 1]>>
  ELSE NatText(n \div 10) \o <<DigitChars[(n % 10) + 1]>>

DecText(n) == IF n < 0 THEN <<"-">> \o NatText(0 - n) ELSE NatText(n)

\* JsToString of the values the handlers hand to parseInt.
JsToString(v) ==
  CASE v.t = "string" -> v.s
    [] v.t = "number" -> DecText(v.n)
    [] OTHER -> <<"?">>

\* The longest prefix of s made of digits of the radix, as a number; acc is
\* the value read so far.
RECURSIVE ReadDigits(_, _, _)
ReadDigits(s, radix, acc) ==
  IF s = <<>> THEN acc
  ELSE IF radix = 10 /\ IsDigit(Head(s))
    THEN ReadDigits(Tail(s), radix, acc * 10 + DigitVal(Head(s)))
  ELSE IF radix = 16 /\ IsHexDigit(Head(s))
    THEN ReadDigits(Tail(s), radix, acc * 16 + HexVal(Head(s)))
  ELSE acc

\* parseInt(string) with no radix argument: leading white space is skipped,
\* one sign is read, a 0x/0X prefix selects radix 16, then the longest run of
\* digits is read and whatever follows is ignored; no digit at all gives NaN.
ParseDigits(d, radix) ==
  IF d = <<>> THEN NaN
  ELSE IF radix = 16 /\ ~IsHexDigit(Head(d)) THEN NaN
  ELSE IF radix = 10 /\ ~IsDigit(Head(d)) THEN NaN
  ELSE Num(ReadDigits(d, radix, 0))

ParseUnsigned(u) ==
  IF Len(u) >= 2 /\ u[1] = "0" /\ u[2] \in {"x", "X"}
  THEN ParseDigits(SubSeq(u, 3, Len(u)), 16)
  ELSE ParseDigits(u, 10)

Negate(v) == IF v.t = "number" THEN Num(0 - v.n) ELSE v

ParseSigned(t) ==
  IF t # <<>> /\ Head(t) = "-" THEN Negate(ParseUnsigned(Tail(t)))
  ELSE IF t # <<>> /\ Head(t) = "+" THEN ParseUnsigned(Tail(t))
  ELSE ParseUnsigned(t)

ParseIntText(s) == ParseSigned(TrimStart(s))

parseInt(v) == ParseIntText(JsToString(v))

(***************************************************************************)
(* Text literals used by the schema and by the requests.                   *)
(***************************************************************************)
USER == <<"U", "S", "E", "R">>
ADMIN == <<"A", "D", "M", "I", "N">>
MODERATOR == <<"M", "O", "D", "E", "R", "A", "T", "O", "R">>

(***************************************************************************)
(* models/User.js: the Mongoose schema.                                    *)
(***************************************************************************)
NameMinLength == 2
NameMaxLength == 50
AgeMin == 0
AgeMax == 150
RoleValues == {USER, ADMIN, MODERATOR}
RoleDefault == USER

\* \w+([\.-]?\w+)* : runs of word characters joined by single '.' or '-'.
WordRuns(s) ==
  /\ s # <<>>
  /\ IsWordChar(s[1])
  /\ IsWordChar(s[Len(s)])
  /\ \A i \in DOMAIN s : IsWordChar(s[i]) \/ s[i] \in {".", "-"}
  /\ \A i \in 1..(Len(s) - 1) : IsWordChar(s[i]) \/ IsWordChar(s[i + 1])

\* (\.\w{2,3})+$ after \w+([\.-]?\w+)* : the text ends with a '.' followed
\* by two or three word characters, and what precedes that '.' is WordRuns.
DomainPart(s) ==
  \E k \in {2, 3} :
    /\ Len(s) > k + 1
    /\ s[Len(s) - k] = "."
    /\ \A i \in (Len(s) - k + 1)..Len(s) : IsWordChar(s[i])
    /\ WordRuns(SubSeq(s, 1, Len(s) - k - 1))

\* /^\w+([\.-]?\w+)*@\w+([\.-]?\w+)*(\.\w{2,3})+$/ .test(s)
EmailPattern(s) ==
  \E a \in DOMAIN s :
    /\ s[a] = "@"
    /\ WordRuns(SubSeq(s, 1, a - 1))
    /\ DomainPart(SubSeq(s, a + 1, Len(s)))

\* The value a failed cast leaves behind.
CastError == [t |-> "CastError", s |-> <<>>, n |-> 0]

\* Decimal integer text, as Number(text) reads it.
IsDigitText(u) == u # <<>> /\ \A i \in DOMAIN u : IsDigit(u[i])
IsIntegerText(s) ==
  IF s # <<>> /\ Head(s) \in {"+", "-"} THEN IsDigitText(Tail(s))
  ELSE IsDigitText(s)

\* SchemaString with trim: true (name).
CastName(v) == IF v.t = "string" THEN Str(Trim(v.s)) ELSE v
\* SchemaString with lowercase: true, trim: true (email).
CastEmail(v) == IF v.t = "string" THEN Str(Trim(ToLowerCase(v.s))) ELSE v
\* SchemaNumber: a number is kept, '' becomes null, numeric text becomes
\* the number, any other text fails to cast.
CastNumber(s) ==
  IF s = <<>> THEN Null
  ELSE IF IsIntegerText(s) THEN ParseIntText(s)
  ELSE CastError
CastAge(v) == IF v.t = "string" THEN CastNumber(Trim(v.s)) ELSE v
\* SchemaString without setters (role).
CastRole(v) == v

\* required + minlength + maxlength on the cast value.
NameValid(v) ==
  /\ v.t = "string"
  /\ v.s # <<>>
  /\ Len(v.s) >= NameMinLength
  /\ Len(v.s) <= NameMaxLength
\* required + match on the cast value.
EmailValid(v) == v.t = "string" /\ v.s # <<>> /\ EmailPattern(v.s)
\* min + max; an absent age passes.
AgeValid(v) ==
  CASE v.t = "number" -> v.n >= AgeMin /\ v.n <= AgeMax
    [] v.t \in {"undefined", "null"} -> TRUE
    [] OTHER -> FALSE
\* enum; an absent role passes (the default applies on create).
RoleValid(v) == v.t = "undefined" \/ (v.t = "string" /\ v.s \in RoleValues)

(***************************************************************************)
(* State                                                                   *)
(***************************************************************************)
VARIABLES
  mongo,     \* the documents of the users collection
  mongoSeq,  \* how many ObjectIds the document store has assigned
  pg,        \* the rows of the relational users table
  pgSeq,     \* the last value drawn from the table's id sequence
  now,       \* the clock, in the unit of the timestamps
  req,       \* the last request: backend, operation, id segment, body
  res,       \* the response sent for it, and what the store call did
  calls,     \* the requests being handled at the same time
  proc       \* the process: start-up, connections, signals, exit

vars == <<mongo, mongoSeq, pg, pgSeq, now, req, res, calls, proc>>

(***************************************************************************)
(* Bounds of the model                                                     *)
(***************************************************************************)
\* Records created per store over a run.
MaxCreates == 2
\* Last value of the clock.
MaxTime == 1
\* Value of the relational id sequence when the process starts (the table
\* outlives the process, so the sequence need not start at 0).
PgSeqStart == 506

(***************************************************************************)
(* What a store call gives back to the handler: either it throws an error  *)
(* (with the error's code and message) or it returns a set of records;     *)
(* `store` is the store afterwards and `queried` counts the queries that   *)
(* reached the database.                                                   *)
(***************************************************************************)
Throw(code, detail, store, queried) ==
  [threw |-> TRUE, code |-> code, detail |-> detail, value |-> {},
   store |-> store, queried |-> queried]
Return(value, store) ==
  [threw |-> FALSE, code |-> "none", detail |-> "none", value |-> value,
   store |-> store, queried |-> 1]

\* Op applied to v: the value v is computed once and named in Op.
With(v, Op(_)) == Op(v)

FieldNames == {"name", "email", "age", "role"}
\* The keys a JSON body carries.
Supplied(body) == {k \in FieldNames : body[k].t # "undefined"}

(***************************************************************************)
(* The document store behind the Mongoose model User.                      *)
(***************************************************************************)
ObjectIdLength == 24
\* A 24 character hexadecimal string casts to an ObjectId; anything else a
\* path segment can hold fails the cast.
IsObjectIdText(s) ==
  Len(s) = ObjectIdLength /\ \A i \in DOMAIN s : IsHexDigit(s[i])

\* The i-th ObjectId the store assigns: the ids of the format guide,
\* 507f1f77bcf86cd799439011, ...12, ... (the trailing counter increments).
ObjectIdPrefix ==
  <<"5", "0", "7", "f", "1", "f", "7", "7", "b", "c", "f", "8", "6", "c", "d",
    "7", "9", "9", "4", "3", "9", "0">>
ObjectIdOf(i) == ObjectIdPrefix \o NatText(10 + i)

\* ObjectId: 24 hexadecimal characters, compared without letter case.
CastObjectId(v) ==
  IF v.t = "undefined" THEN v
  ELSE IF v.t = "string" /\ IsObjectIdText(v.s) THEN Str(ToLowerCase(v.s))
  ELSE CastError

\* The paths of the schema after casting and setters.  A key that is no
\* path of the schema (id) is dropped by strict mode, and timestamps: true
\* takes createdAt out of every update, so neither is among the cast paths.
CastDoc(body) ==
  [name |-> CastName(body.name), email |-> CastEmail(body.email),
   age |-> CastAge(body.age), role |-> CastRole(body.role),
   _id |-> CastObjectId(body._id)]

\* The paths among `paths` whose validators reject the cast value.
InvalidPaths(cast, paths) ==
  {k \in paths :
     CASE k = "name" -> ~NameValid(cast.name)
       [] k = "email" -> ~EmailValid(cast.email)
       [] k = "age" -> ~AgeValid(cast.age)
       [] k = "role" -> ~RoleValid(cast.role)}

\* User.find()
MongooseFind(docs, fault) ==
  IF fault # "none" THEN Throw("none", fault, docs, 1)
  ELSE Return(docs, docs)

\* User.findById(id)
MongooseFindById(docs, id, fault) ==
  IF ~IsObjectIdText(id) THEN Throw("none", "CastError", docs, 0)
  ELSE IF fault # "none" THEN Throw("none", fault, docs, 1)
  ELSE Return({d \in docs : d._id = ToLowerCase(id)}, docs)

\* MongooseSave with createdAt and updatedAt read from the clock one after
\* the other, the clock moving in between.
MongooseSaveTwoStamps(docs, cast, oid, t, fault) ==
  LET doc == [_id |-> oid,
              name |-> cast.name,
              email |-> cast.email,
              age |-> cast.age,
              role |-> IF cast.role.t = "undefined" THEN Str(RoleDefault)
                       ELSE cast.role,
              createdAt |-> t,
              updatedAt |-> t + 1]
  IN IF InvalidPaths(cast, FieldNames) # {}
       THEN Throw("none", "ValidationError", docs, 0)
     ELSE IF fault # "none" THEN Throw("none", fault, docs, 1)
     ELSE IF \E d \in docs : d.email = doc.email
       THEN Throw("11000", "E11000 duplicate key", docs, 1)
     ELSE Return({doc}, docs \cup {doc})

\* The document built from the cast paths (the role default, timestamps:
\* true) is validated, then inserted under the unique index on email.
MongooseSave(docs, cast, oid, t, fault) ==
  LET doc == [_id |-> oid,
              name |-> cast.name,
              email |-> cast.email,
              age |-> cast.age,
              role |-> IF cast.role.t = "undefined" THEN Str(RoleDefault)
                       ELSE cast.role,
              createdAt |-> t,
              updatedAt |-> t]
  IN IF InvalidPaths(cast, FieldNames) # {}
       THEN Throw("none", "ValidationError", docs, 0)
     ELSE IF fault # "none" THEN Throw("none", fault, docs, 1)
     ELSE IF \E d \in docs : d.email = doc.email
       THEN Throw("11000", "E11000 duplicate key", docs, 1)
     ELSE Return({doc}, docs \cup {doc})

\* User.create({name, email, age, role})
MongooseCreate(docs, body, oid, t, fault) ==
  MongooseSave(docs, CastDoc(body), oid, t, fault)

\* The id is cast, the validators of the updated paths run on the cast
\* update, then one findOneAndUpdate sets those paths and updatedAt; the
\* server refuses a $set of _id to another value (_id is immutable).
MongooseFindOneAndUpdate(docs, id, paths, cast, t, fault) ==
  LET hit == {d \in docs : d._id = ToLowerCase(id)}
      old == CHOOSE d \in hit : TRUE
      new == [old EXCEPT
                !.name = IF "name" \in paths THEN cast.name ELSE @,
                !.email = IF "email" \in paths THEN cast.email ELSE @,
                !.age = IF "age" \in paths THEN cast.age ELSE @,
                !.role = IF "role" \in paths THEN cast.role ELSE @,
                !.updatedAt = t]
  IN IF ~IsObjectIdText(id) \/ cast._id.t = "CastError"
       THEN Throw("none", "CastError", docs, 0)
     ELSE IF InvalidPaths(cast, paths) # {}
       THEN Throw("none", "ValidationError", docs, 0)
     ELSE IF fault # "none" THEN Throw("none", fault, docs, 1)
     ELSE IF hit = {} THEN Return({}, docs)
     ELSE IF cast._id.t = "string" /\ cast._id.s # old._id
       THEN Throw("66", "ImmutableField", docs, 1)
     ELSE IF \E d \in docs \ hit : d.email = new.email
       THEN Throw("11000", "E11000 duplicate key", docs, 1)
     ELSE Return({new}, (docs \ hit) \cup {new})

\* User.findByIdAndUpdate(id, update, {new: true, runValidators: true})
MongooseFindByIdAndUpdate(docs, id, body, t, fault) ==
  MongooseFindOneAndUpdate(docs, id, Supplied(body), CastDoc(body), t, fault)

\* MongooseFindByIdAndDelete that finds the document and leaves it stored.
MongooseFindByIdAndDeleteKeeping(docs, id, fault) ==
  LET hit == {d \in docs : d._id = ToLowerCase(id)}
  IN IF ~IsObjectIdText(id) THEN Throw("none", "CastError", docs, 0)
     ELSE IF fault # "none" THEN Throw("none", fault, docs, 1)
     ELSE Return(hit, docs)

\* User.findByIdAndDelete(id)
MongooseFindByIdAndDelete(docs, id, fault) ==
  LET hit == {d \in docs : d._id = ToLowerCase(id)}
  IN IF ~IsObjectIdText(id) THEN Throw("none", "CastError", docs, 0)
     ELSE IF fault # "none" THEN Throw("none", fault, docs, 1)
     ELSE Return(hit, docs \ hit)

(***************************************************************************)
(* The relational store behind prisma.user.  The table (schema.prisma):    *)
(* id Int autoincrement, name String, email String unique, age Int?,       *)
(* role String default USER, createdAt now(), updatedAt @updatedAt.        *)
(* A store value is [rows, seq].                                           *)
(***************************************************************************)
\* prisma.user.findMany()
PrismaFindMany(db, fault) ==
  IF fault # "none" THEN Throw("none", fault, db, 1)
  ELSE Return(db.rows, db)

\* prisma.user.findUnique({where: {id}})
PrismaFindUnique(db, id, fault) ==
  IF fault # "none" THEN Throw("none", fault, db, 1)
  ELSE Return({r \in db.rows : r.id = id.n}, db)

\* prisma.user.create({data}): the insert draws the next id from the
\* sequence (also when the unique constraint on email then rejects it) and
\* stores data as given.
PrismaCreate(db, data, t, fault) ==
  LET row == [id |-> db.seq + 1,
              name |-> data.name,
              email |-> data.email,
              age |-> data.age,
              role |-> data.role,
              createdAt |-> t,
              updatedAt |-> t]
      drawn == [db EXCEPT !.seq = @ + 1]
  IN IF fault # "none" THEN Throw("none", fault, db, 1)
     ELSE IF \E r \in db.rows : r.email = row.email
       THEN Throw("P2002", "Unique constraint failed", drawn, 1)
     ELSE Return({row}, [drawn EXCEPT !.rows = @ \cup {row}])

\* prisma.user.update({where: {id}, data}): the keys of data are set, and
\* updatedAt; no row with the id is error P2025, a second row with the
\* email is error P2002.
PrismaUpdate(db, id, data, t, fault) ==
  LET hit == {r \in db.rows : r.id = id.n}
      old == CHOOSE r \in hit : TRUE
      new == [old EXCEPT
                !.name = IF data.name.t # "undefined" THEN data.name ELSE @,
                !.email = IF data.email.t # "undefined" THEN data.email ELSE @,
                !.age = IF data.age.t # "undefined" THEN data.age ELSE @,
                !.role = IF data.role.t # "undefined" THEN data.role ELSE @,
                !.id = IF data.id.t = "number" THEN data.id.n ELSE @,
                !.createdAt =
                  IF data.createdAt.t = "number" THEN data.createdAt.n ELSE @,
                !.updatedAt = t]
  IN IF fault # "none" THEN Throw("none", fault, db, 1)
     ELSE IF hit = {} THEN Throw("P2025", "Record to update not found", db, 1)
     ELSE IF \E r \in db.rows \ hit : r.email = new.email
       THEN Throw("P2002", "Unique constraint failed", db, 1)
     ELSE Return({new}, [db EXCEPT !.rows = (@ \ hit) \cup {new}])

\* prisma.user.delete({where: {id}})
PrismaDelete(db, id, fault) ==
  LET hit == {r \in db.rows : r.id = id.n}
  IN IF fault # "none" THEN Throw("none", fault, db, 1)
     ELSE IF hit = {} THEN Throw("P2025", "Record to delete not found", db, 1)
     ELSE Return(hit, [db EXCEPT !.rows = @ \ hit])

(***************************************************************************)
(* controllers/userController.js                                           *)
(*                                                                         *)
(* A handler is an operator from the store and the request to [res, store]:*)
(* the JSON response it sends and the store it leaves.  results = -1 and   *)
(* error = "none" stand for a body without that key; data is the set of    *)
(* records under data.user / data.users.                                   *)
(***************************************************************************)
\* r is what the handler's store call did; fault is recorded only for a
\* query that was sent; `sent` counts the responses sent on the path.
Sent(code, status, message, results, data, error, r, fault) ==
  [res |-> [code |-> code, status |-> status, message |-> message,
            results |-> results, data |-> data, error |-> error,
            queried |-> r.queried,
            fault |-> IF r.queried > 0 THEN fault ELSE "none",
            sent |-> 1],
   store |-> r.store]

\* A second res.status(...).json(...) on the path of h.
SentAgain(h) == [h EXCEPT !.res.sent = @ + 1]

\* A handler that returns before its store call.
NoCall(store) == [queried |-> 0, store |-> store]

\* ---- MongoDB controllers (Mongoose) ----

\* getAllUsersFromMongo with the raw error text as the message.
getAllUsersFromMongoRaw(docs, fault) ==
  With(MongooseFind(docs, fault), LAMBDA r :
    IF r.threw
      THEN Sent(500, "error", r.detail, -1, {}, r.detail, r, fault)
    ELSE Sent(200, "success", "none", Cardinality(r.value), r.value,
              "none", r, fault))

getAllUsersFromMongo(docs, fault) ==
  With(MongooseFind(docs, fault), LAMBDA r :
    IF r.threw
      THEN Sent(500, "error", "Failed to fetch users from MongoDB", -1, {},
                r.detail, r, fault)
    ELSE Sent(200, "success", "none", Cardinality(r.value), r.value,
              "none", r, fault))

\* getUserByIdFromMongo without the return before its 404: the handler
\* goes on to send the 200 as well.
getUserByIdFromMongoNoReturn(docs, id, fault) ==
  With(MongooseFindById(docs, id, fault), LAMBDA r :
    IF r.threw
      THEN Sent(500, "error", "Failed to fetch user from MongoDB", -1, {},
                r.detail, r, fault)
    ELSE IF r.value = {}
      THEN SentAgain(Sent(404, "error", "User not found", -1, {}, "none",
                          r, fault))
    ELSE Sent(200, "success", "none", -1, r.value, "none",
              r, fault))

getUserByIdFromMongo(docs, id, fault) ==
  With(MongooseFindById(docs, id, fault), LAMBDA r :
    IF r.threw
      THEN Sent(500, "error", "Failed to fetch user from MongoDB", -1, {},
                r.detail, r, fault)
    ELSE IF r.value = {}
      THEN Sent(404, "error", "User not found", -1, {}, "none", r, fault)
    ELSE Sent(200, "success", "none", -1, r.value, "none",
              r, fault))

\* createUserInMongo answering 200 for a created user.
createUserInMongoOk(docs, body, oid, t, fault) ==
  IF ~Truthy(body.name) \/ ~Truthy(body.email)
    THEN Sent(400, "error", "Name and email are required", -1, {}, "none",
              NoCall(docs), fault)
  ELSE With(MongooseCreate(docs, body, oid, t, fault), LAMBDA r :
    IF r.threw
      THEN IF r.code = "11000"
             THEN Sent(400, "error", "Email already exists", -1, {},
                       "none", r, fault)
           ELSE Sent(500, "error", "Failed to create user in MongoDB",
                     -1, {}, r.detail, r, fault)
    ELSE Sent(200, "success", "User created successfully", -1, r.value,
              "none", r, fault))

createUserInMongo(docs, body, oid, t, fault) ==
  IF ~Truthy(body.name) \/ ~Truthy(body.email)
    THEN Sent(400, "error", "Name and email are required", -1, {}, "none",
              NoCall(docs), fault)
  ELSE With(MongooseCreate(docs, body, oid, t, fault), LAMBDA r :
    IF r.threw
      THEN IF r.code = "11000"
             THEN Sent(400, "error", "Email already exists", -1, {},
                       "none", r, fault)
           ELSE Sent(500, "error", "Failed to create user in MongoDB",
                     -1, {}, r.detail, r, fault)
    ELSE Sent(201, "success", "User created successfully", -1, r.value,
              "none", r, fault))

\* updateUserInMongo reading the document back after the update.
updateUserInMongoReread(docs, id, body, t, fault) ==
  With(MongooseFindByIdAndUpdate(docs, id, body, t, fault), LAMBDA r :
    IF r.threw
      THEN Sent(500, "error", "Failed to update user in MongoDB", -1, {},
                r.detail, r, fault)
    ELSE IF r.value = {}
      THEN Sent(404, "error", "User not found", -1, {}, "none", r, fault)
    ELSE With(MongooseFindById(r.store, id, fault), LAMBDA q :
      Sent(200, "success", "User updated successfully", -1, q.value, "none",
           [q EXCEPT !.queried = r.queried + q.queried], fault)))

updateUserInMongo(docs, id, body, t, fault) ==
  With(MongooseFindByIdAndUpdate(docs, id, body, t, fault), LAMBDA r :
    IF r.threw
      THEN Sent(500, "error", "Failed to update user in MongoDB", -1, {},
                r.detail, r, fault)
    ELSE IF r.value = {}
      THEN Sent(404, "error", "User not found", -1, {}, "none", r, fault)
    ELSE Sent(200, "success", "User updated successfully", -1, r.value, "none",
              r, fault))

deleteUserFromMongo(docs, id, fault) ==
  With(MongooseFindByIdAndDelete(docs, id, fault), LAMBDA r :
    IF r.threw
      THEN Sent(500, "error", "Failed to delete user from MongoDB", -1, {},
                r.detail, r, fault)
    ELSE IF r.value = {}
      THEN Sent(404, "error", "User not found", -1, {}, "none", r, fault)
    ELSE Sent(200, "success", "User deleted successfully", -1, r.value, "none",
              r, fault))

\* ---- PostgreSQL controllers (Prisma) ----

\* const id = parseInt(req.params.id)
PgId(id) == parseInt(Str(id))

\* getAllUsersFromPostgres with no results key in the body.
getAllUsersFromPostgresNoCount(db, fault) ==
  With(PrismaFindMany(db, fault), LAMBDA r :
    IF r.threw
      THEN Sent(500, "error", "Failed to fetch users from PostgreSQL", -1, {},
                r.detail, r, fault)
    ELSE Sent(200, "success", "none", -1, r.value,
              "none", r, fault))

getAllUsersFromPostgres(db, fault) ==
  With(PrismaFindMany(db, fault), LAMBDA r :
    IF r.threw
      THEN Sent(500, "error", "Failed to fetch users from PostgreSQL", -1, {},
                r.detail, r, fault)
    ELSE Sent(200, "success", "none", Cardinality(r.value), r.value,
              "none", r, fault))

getUserByIdFromPostgres(db, idText, fault) ==
  With(PgId(idText), LAMBDA id :
    IF isNaN(id)
      THEN Sent(400, "error", "Invalid user ID", -1, {}, "none",
                NoCall(db), fault)
    ELSE With(PrismaFindUnique(db, id, fault), LAMBDA r :
      IF r.threw
        THEN Sent(500, "error", "Failed to fetch user from PostgreSQL", -1, {},
                  r.detail, r, fault)
      ELSE IF r.value = {}
        THEN Sent(404, "error", "User not found", -1, {}, "none", r, fault)
      ELSE Sent(200, "success", "none", -1, r.value,
                "none", r, fault)))

\* PgCreateData with the role passed on as received.
PgCreateDataNoDefault(body) ==
  [name |-> body.name,
   email |-> body.email,
   age |-> IF Truthy(body.age) THEN parseInt(body.age) ELSE Null,
   role |-> body.role]

\* data: { name, email, age: age ? parseInt(age) : null, role: role || 'USER' }
PgCreateData(body) ==
  [name |-> body.name,
   email |-> body.email,
   age |-> IF Truthy(body.age) THEN parseInt(body.age) ELSE Null,
   role |-> IF Truthy(body.role) THEN body.role ELSE Str(USER)]

\* createUserInPostgres that also looks the email up among the documents.
createUserInPostgresCrossCheck(db, body, t, fault) ==
  IF ~Truthy(body.name) \/ ~Truthy(body.email)
    THEN Sent(400, "error", "Name and email are required", -1, {}, "none",
              NoCall(db), fault)
  ELSE IF \E d \in mongo : d.email = body.email
    THEN Sent(400, "error", "Email already exists", -1, {}, "none",
              NoCall(db), fault)
  ELSE With(PrismaCreate(db, PgCreateData(body), t, fault), LAMBDA r :
    IF r.threw
      THEN IF r.code = "P2002"
             THEN Sent(400, "error", "Email already exists", -1, {},
                       "none", r, fault)
           ELSE Sent(500, "error", "Failed to create user in PostgreSQL",
                     -1, {}, r.detail, r, fault)
    ELSE Sent(201, "success", "User created successfully", -1, r.value,
              "none", r, fault))

createUserInPostgres(db, body, t, fault) ==
  IF ~Truthy(body.name) \/ ~Truthy(body.email)
    THEN Sent(400, "error", "Name and email are required", -1, {}, "none",
              NoCall(db), fault)
  ELSE With(PrismaCreate(db, PgCreateData(body), t, fault), LAMBDA r :
    IF r.threw
      THEN IF r.code = "P2002"
             THEN Sent(400, "error", "Email already exists", -1, {},
                       "none", r, fault)
           ELSE Sent(500, "error", "Failed to create user in PostgreSQL",
                     -1, {}, r.detail, r, fault)
    ELSE Sent(201, "success", "User created successfully", -1, r.value,
              "none", r, fault))

\* PgUpdateData with every column written: a field the body does not carry
\* is set to null or to its default, as on create.
PgUpdateDataOverwriting(body) ==
  [name |-> IF Truthy(body.name) THEN body.name ELSE Undef,
   email |-> IF Truthy(body.email) THEN body.email ELSE Undef,
   age |-> IF Truthy(body.age) THEN parseInt(body.age) ELSE Null,
   role |-> IF Truthy(body.role) THEN body.role ELSE Str(USER),
   id |-> Undef,
   createdAt |-> Undef]

\* PgUpdateData with the body's id and createdAt keys passed on to the
\* store, as when the body itself is the update.
PgUpdateDataFromBody(body) ==
  [name |-> IF Truthy(body.name) THEN body.name ELSE Undef,
   email |-> IF Truthy(body.email) THEN body.email ELSE Undef,
   age |-> IF Truthy(body.age) THEN parseInt(body.age) ELSE Undef,
   role |-> IF Truthy(body.role) THEN body.role ELSE Undef,
   id |-> body.id,
   createdAt |-> body.createdAt]

\* const updateData = {}; if (name) updateData.name = name; ...
\* Only name, email, age and role are read from the body: updateData never
\* has an id or createdAt key.
PgUpdateData(body) ==
  [name |-> IF Truthy(body.name) THEN body.name ELSE Undef,
   email |-> IF Truthy(body.email) THEN body.email ELSE Undef,
   age |-> IF Truthy(body.age) THEN parseInt(body.age) ELSE Undef,
   role |-> IF Truthy(body.role) THEN body.role ELSE Undef,
   id |-> Undef,
   createdAt |-> Undef]

\* updateUserInPostgres that refuses an update with no field to set.
updateUserInPostgresNonEmpty(db, idText, body, t, fault) ==
  With(PgId(idText), LAMBDA id :
    IF isNaN(id)
      THEN Sent(400, "error", "Invalid user ID", -1, {}, "none",
                NoCall(db), fault)
    ELSE IF Supplied(PgUpdateData(body)) = {}
      THEN Sent(400, "error", "No fields to update", -1, {}, "none",
                NoCall(db), fault)
    ELSE With(PrismaUpdate(db, id, PgUpdateData(body), t, fault), LAMBDA r :
      IF r.threw
        THEN IF r.code = "P2025"
               THEN Sent(404, "error", "User not found", -1, {}, "none",
                         r, fault)
             ELSE Sent(500, "error", "Failed to update user in PostgreSQL",
                       -1, {}, r.detail, r, fault)
      ELSE Sent(200, "success", "User updated successfully", -1, r.value,
                "none", r, fault)))

updateUserInPostgres(db, idText, body, t, fault) ==
  With(PgId(idText), LAMBDA id :
    IF isNaN(id)
      THEN Sent(400, "error", "Invalid user ID", -1, {}, "none",
                NoCall(db), fault)
    ELSE With(PrismaUpdate(db, id, PgUpdateData(body), t, fault), LAMBDA r :
      IF r.threw
        THEN IF r.code = "P2025"
               THEN Sent(404, "error", "User not found", -1, {}, "none",
                         r, fault)
             ELSE Sent(500, "error", "Failed to update user in PostgreSQL",
                       -1, {}, r.detail, r, fault)
      ELSE Sent(200, "success", "User updated successfully", -1, r.value,
                "none", r, fault)))

\* deleteUserFromPostgres with a catch that does not look at error.code:
\* a missing row is reported like any other failure.
deleteUserFromPostgresNoNotFound(db, idText, fault) ==
  With(PgId(idText), LAMBDA id :
    IF isNaN(id)
      THEN Sent(400, "error", "Invalid user ID", -1, {}, "none",
                NoCall(db), fault)
    ELSE With(PrismaDelete(db, id, fault), LAMBDA r :
      IF r.threw
        THEN Sent(500, "error", "Failed to delete user from PostgreSQL",
                  -1, {}, r.detail, r, fault)
      ELSE Sent(200, "success", "User deleted successfully", -1, r.value,
                "none", r, fault)))

deleteUserFromPostgres(db, idText, fault) ==
  With(PgId(idText), LAMBDA id :
    IF isNaN(id)
      THEN Sent(400, "error", "Invalid user ID", -1, {}, "none",
                NoCall(db), fault)
    ELSE With(PrismaDelete(db, id, fault), LAMBDA r :
      IF r.threw
        THEN IF r.code = "P2025"
               THEN Sent(404, "error", "User not found", -1, {}, "none",
                         r, fault)
             ELSE Sent(500, "error", "Failed to delete user from PostgreSQL",
                       -1, {}, r.detail, r, fault)
      ELSE Sent(200, "success", "User deleted successfully", -1, r.value,
                "none", r, fault)))

(***************************************************************************)
(* Requests                                                                *)
(***************************************************************************)
Ann == <<"A", "n", "n">>
Bo == <<"B", "o">>
BoPadded == <<" ", "B", "o", " ">>
OneLetter == <<"A">>
TooLong == [i \in 1..(NameMaxLength + 1) |-> "x"]
AnnEmail == <<"a", "n", "n", "@", "e", "x", ".", "c", "o", "m">>
AnnEmailUpper == <<"A", "n", "n", "@", "E", "x", ".", "c", "o", "m">>
BoEmail == <<"b", "o", "@", "e", "x", ".", "c", "o", "m">>
NoEmail == <<"b", "o", "@", "e", "x">>
Thirty == <<"3", "0">>
GUEST == <<"G", "U", "E", "S", "T">>

\* A JSON body: the four fields of a user, and the keys _id, id and
\* createdAt a client may also send.
Body(name, email, age, role) ==
  [name |-> name, email |-> email, age |-> age, role |-> role,
   _id |-> Undef, id |-> Undef, createdAt |-> Undef]
NoBody == Body(Undef, Undef, Undef, Undef)
SystemKeys(body, oid, id, createdAt) ==
  [body EXCEPT !._id = oid, !.id = id, !.createdAt = createdAt]

\* POST bodies whose fields all satisfy the field rules.
ValidCreateBodies ==
  {Body(Str(Ann), Str(AnnEmail), Undef, Undef),
   Body(Str(BoPadded), Str(BoEmail), Str(Thirty), Undef),
   Body(Str(Bo), Str(AnnEmailUpper), Num(0), Str(ADMIN))}
\* POST bodies with a missing field, or with one field that breaks its rule.
InvalidCreateBodies ==
  {Body(Undef, Str(BoEmail), Undef, Undef),
   Body(Str(Ann), Str(<<>>), Undef, Undef),
   Body(Str(OneLetter), Str(BoEmail), Undef, Undef),
   Body(Str(TooLong), Str(BoEmail), Undef, Undef),
   Body(Str(Ann), Str(NoEmail), Undef, Undef),
   Body(Str(Ann), Str(BoEmail), Num(AgeMax + 1), Undef),
   Body(Str(Ann), Str(BoEmail), Num(AgeMin - 1), Undef),
   Body(Str(Ann), Str(BoEmail), Undef, Str(GUEST))}
CreateBodies == ValidCreateBodies \cup InvalidCreateBodies

\* PUT bodies whose supplied fields all satisfy the field rules.
ValidUpdateBodies ==
  {NoBody,
   Body(Undef, Undef, Num(26), Undef),
   Body(Undef, Undef, Num(0), Undef),
   Body(Str(BoPadded), Undef, Undef, Undef),
   Body(Undef, Str(AnnEmail), Undef, Undef),
   Body(Undef, Str(AnnEmailUpper), Undef, Undef),
   Body(Undef, Undef, Undef, Str(ADMIN)),
   Body(Str(Ann), Undef, Str(Thirty), Undef)}
\* PUT bodies with one supplied field that breaks its rule.
InvalidUpdateBodies ==
  {Body(Str(OneLetter), Undef, Undef, Undef),
   Body(Undef, Str(NoEmail), Undef, Undef),
   Body(Undef, Undef, Num(AgeMax + 1), Undef),
   Body(Undef, Undef, Undef, Str(GUEST))}
\* A well-formed ObjectId no document has.
AbsentObjectId == [i \in 1..ObjectIdLength |-> "f"]

\* PUT bodies that also carry _id, or id and createdAt.
SystemKeyBodies ==
  {SystemKeys(Body(Str(Ann), Undef, Undef, Undef),
              Str(AbsentObjectId), Undef, Undef),
   SystemKeys(Body(Str(Ann), Undef, Undef, Undef),
              Undef, Num(1), Num(9))}
UpdateBodies ==
  ValidUpdateBodies \cup InvalidUpdateBodies \cup SystemKeyBodies

\* Id path segments: the ids the two stores assign, a well-formed ObjectId
\* no document has, and text that is the decimal form of no positive integer.
AssignedObjectIds == {ObjectIdOf(i) : i \in 1..MaxCreates}
AssignedRowIds == {DecText(PgSeqStart + i) : i \in 1..MaxCreates}
AbsentRowId == DecText(999999)
MalformedIds ==
  {<<"a", "b", "c">>, <<"5", "0", "7", ".", "5">>, <<"0">>, <<"-", "1">>}
IdTexts ==
  AssignedObjectIds \cup AssignedRowIds \cup MalformedIds
    \cup {AbsentObjectId, AbsentRowId}

Request(backend, op, id, body) ==
  [backend |-> backend, op |-> op, id |-> id, body |-> body]

\* The router: the handler of the route a request matches, run against the
\* two stores st = [mongo, mongoSeq, pg, pgSeq].
MongoHandler(q, docs, oid, t, fault) ==
  CASE q.op = "list" -> getAllUsersFromMongo(docs, fault)
    [] q.op = "getById" -> getUserByIdFromMongo(docs, q.id, fault)
    [] q.op = "create" -> createUserInMongo(docs, q.body, oid, t, fault)
    [] q.op = "update" -> updateUserInMongo(docs, q.id, q.body, t, fault)
    [] q.op = "delete" -> deleteUserFromMongo(docs, q.id, fault)

PostgresHandler(q, db, t, fault) ==
  CASE q.op = "list" -> getAllUsersFromPostgres(db, fault)
    [] q.op = "getById" -> getUserByIdFromPostgres(db, q.id, fault)
    [] q.op = "create" -> createUserInPostgres(db, q.body, t, fault)
    [] q.op = "update" -> updateUserInPostgres(db, q.id, q.body, t, fault)
    [] q.op = "delete" -> deleteUserFromPostgres(db, q.id, fault)

Handle(q, st, t, fault) ==
  IF q.backend = "mongo"
    THEN With(MongoHandler(q, st.mongo, ObjectIdOf(st.mongoSeq + 1), t,
                           fault),
              LAMBDA h :
                [res |-> h.res,
                 st |-> [st EXCEPT
                           !.mongo = h.store,
                           !.mongoSeq = IF h.store # st.mongo
                                             /\ q.op = "create"
                                          THEN @ + 1 ELSE @]])
  ELSE With(PostgresHandler(q, [rows |-> st.pg, seq |-> st.pgSeq], t, fault),
            LAMBDA h :
              [res |-> h.res,
               st |-> [st EXCEPT !.pg = h.store.rows,
                                 !.pgSeq = h.store.seq]])

\* The two stores as the process finds them.
Stores ==
  [mongo |-> mongo, mongoSeq |-> mongoSeq, pg |-> pg, pgSeq |-> pgSeq]

\* The times a store call may stamp: the clock has not moved since the last
\* stamp, or it has.
Stamps == {t \in {now, now + 1} : t <= MaxTime}

Db == [rows |-> pg, seq |-> pgSeq]

(***************************************************************************)
(* Initial state: both stores empty, no request handled yet.               *)
(***************************************************************************)
NoRequest == Request("none", "none", <<>>, NoBody)
Idle == req = NoRequest
NoResponse ==
  [code |-> 0, status |-> "none", message |-> "none", results |-> -1,
   data |-> {}, error |-> "none", queried |-> 0, fault |-> "none",
   sent |-> 0]

\* A request being handled: `pc` is where its handler stands (no request,
\* awaiting its store call, response sent), q the request and t the clock
\* reading its write is stamped with.
Callers == {"a", "b"}
\* No request in flight; `base` is the store before the first of the
\* requests in flight was received.
NoCalls(st) ==
  [base |-> st,
   at |-> [c \in Callers |->
             [pc |-> "free", q |-> NoRequest, t |-> 0, res |-> NoResponse]]]

\* The process once startServer has run through: both connections open,
\* the server listening, no signal received.
\* The process when node starts server.js: `pc` is where startServer
\* stands, `connected` the connections in the order they were made,
\* `pending` the awaits and timers of the signal handlers, `by` the code
\* that called process.exit.
Starting ==
  [pc |-> "connectMongoDB", mongoConn |-> "closed", prismaConn |-> "closed",
   server |-> "none", pending |-> {}, signals |-> {}, connected |-> <<>>,
   failed |-> "none", exited |-> FALSE, code |-> 0, by |-> "none"]

\* The process once startServer has run through: both connections open,
\* the server listening, no signal received.
Serving ==
  [Starting EXCEPT !.pc = "listening", !.mongoConn = "open",
                   !.prismaConn = "open", !.server = "listening",
                   !.connected = <<"mongo", "postgres">>]

Init ==
  /\ mongo = {}
  /\ mongoSeq = 0
  /\ pg = {}
  /\ pgSeq = PgSeqStart
  /\ now = 0
  /\ req = NoRequest
  /\ res = NoResponse
  /\ calls = NoCalls(Stores)
  /\ proc = Serving

(***************************************************************************)
(* One action per route of routes/userRoutes.js: the handler runs from the *)
(* request to its response.  I, B and F are the id segments, bodies and    *)
(* store faults the requests are drawn from.  Requests are handled one at  *)
(* a time: a route is taken when no request is being served (Idle), and    *)
(* Done ends the request once its response is sent.                        *)
(***************************************************************************)
\* GET /api/users/mongo
GetMongo(F) ==
  /\ Idle
  /\ UNCHANGED <<calls, proc>>
  /\ \E fault \in F :
       \E h \in {getAllUsersFromMongo(mongo, fault)} :
         /\ req' = Request("mongo", "list", <<>>, NoBody)
         /\ res' = h.res
         /\ mongo' = h.store
         /\ UNCHANGED <<mongoSeq, pg, pgSeq, now>>

\* GET /api/users/mongo/:id
GetMongoId(I, F) ==
  /\ Idle
  /\ UNCHANGED <<calls, proc>>
  /\ \E id \in I, fault \in F :
       \E h \in {getUserByIdFromMongo(mongo, id, fault)} :
         /\ req' = Request("mongo", "getById", id, NoBody)
         /\ res' = h.res
         /\ mongo' = h.store
         /\ UNCHANGED <<mongoSeq, pg, pgSeq, now>>

\* POST /api/users/mongo
PostMongo(B, F) ==
  /\ Idle
  /\ UNCHANGED <<calls, proc>>
  /\ mongoSeq < MaxCreates
  /\ \E body \in B, fault \in F, t \in Stamps :
       \E h \in {createUserInMongo(
                   mongo, body, ObjectIdOf(mongoSeq + 1), t, fault)} :
         /\ req' = Request("mongo", "create", <<>>, body)
         /\ res' = h.res
         /\ mongo' = h.store
         /\ mongoSeq' = IF h.store # mongo THEN mongoSeq + 1 ELSE mongoSeq
         /\ now' = IF h.store # mongo THEN t ELSE now
         /\ UNCHANGED <<pg, pgSeq>>

\* PUT /api/users/mongo/:id
PutMongoId(I, B, F) ==
  /\ Idle
  /\ UNCHANGED <<calls, proc>>
  /\ \E id \in I, body \in B, fault \in F, t \in Stamps :
       \E h \in {updateUserInMongo(mongo, id, body, t, fault)} :
         /\ req' = Request("mongo", "update", id, body)
         /\ res' = h.res
         /\ mongo' = h.store
         /\ now' = IF h.res.code = 200 THEN t ELSE now
         /\ UNCHANGED <<mongoSeq, pg, pgSeq>>

\* DELETE /api/users/mongo/:id
DeleteMongoId(I, F) ==
  /\ Idle
  /\ UNCHANGED <<calls, proc>>
  /\ \E id \in I, fault \in F :
       \E h \in {deleteUserFromMongo(mongo, id, fault)} :
         /\ req' = Request("mongo", "delete", id, NoBody)
         /\ res' = h.res
         /\ mongo' = h.store
         /\ UNCHANGED <<mongoSeq, pg, pgSeq, now>>

\* GET /api/users/postgres
GetPostgres(F) ==
  /\ Idle
  /\ UNCHANGED <<calls, proc>>
  /\ \E fault \in F :
       \E h \in {getAllUsersFromPostgres(Db, fault)} :
         /\ req' = Request("postgres", "list", <<>>, NoBody)
         /\ res' = h.res
         /\ pg' = h.store.rows
         /\ pgSeq' = h.store.seq
         /\ UNCHANGED <<mongo, mongoSeq, now>>

\* GET /api/users/postgres/:id
GetPostgresId(I, F) ==
  /\ Idle
  /\ UNCHANGED <<calls, proc>>
  /\ \E id \in I, fault \in F :
       \E h \in {getUserByIdFromPostgres(Db, id, fault)} :
         /\ req' = Request("postgres", "getById", id, NoBody)
         /\ res' = h.res
         /\ pg' = h.store.rows
         /\ pgSeq' = h.store.seq
         /\ UNCHANGED <<mongo, mongoSeq, now>>

\* POST /api/users/postgres
PostPostgres(B, F) ==
  /\ Idle
  /\ UNCHANGED <<calls, proc>>
  /\ pgSeq < PgSeqStart + MaxCreates
  /\ \E body \in B, fault \in F, t \in Stamps :
       \E h \in {createUserInPostgres(Db, body, t, fault)} :
         /\ req' = Request("postgres", "create", <<>>, body)
         /\ res' = h.res
         /\ pg' = h.store.rows
         /\ pgSeq' = h.store.seq
         /\ now' = IF h.store.rows # pg THEN t ELSE now
         /\ UNCHANGED <<mongo, mongoSeq>>

\* PUT /api/users/postgres/:id
PutPostgresId(I, B, F) ==
  /\ Idle
  /\ UNCHANGED <<calls, proc>>
  /\ \E id \in I, body \in B, fault \in F, t \in Stamps :
       \E h \in {updateUserInPostgres(Db, id, body, t, fault)} :
         /\ req' = Request("postgres", "update", id, body)
         /\ res' = h.res
         /\ pg' = h.store.rows
         /\ pgSeq' = h.store.seq
         /\ now' = IF h.res.code = 200 THEN t ELSE now
         /\ UNCHANGED <<mongo, mongoSeq>>

\* DELETE /api/users/postgres/:id
DeletePostgresId(I, F) ==
  /\ Idle
  /\ UNCHANGED <<calls, proc>>
  /\ \E id \in I, fault \in F :
       \E h \in {deleteUserFromPostgres(Db, id, fault)} :
         /\ req' = Request("postgres", "delete", id, NoBody)
         /\ res' = h.res
         /\ pg' = h.store.rows
         /\ pgSeq' = h.store.seq
         /\ UNCHANGED <<mongo, mongoSeq, now>>

\* The response has been sent: the request is over.
Done ==
  /\ ~Idle
  /\ UNCHANGED <<calls, proc>>
  /\ req' = NoRequest
  /\ res' = NoResponse
  /\ UNCHANGED <<mongo, mongoSeq, pg, pgSeq, now>>

MongoRoutes(I, CB, UB, F) ==
  \/ GetMongo(F)
  \/ GetMongoId(I, F)
  \/ PostMongo(CB, F)
  \/ PutMongoId(I, UB, F)
  \/ DeleteMongoId(I, F)

PostgresRoutes(I, CB, UB, F) ==
  \/ GetPostgres(F)
  \/ GetPostgresId(I, F)
  \/ PostPostgres(CB, F)
  \/ PutPostgresId(I, UB, F)
  \/ DeletePostgresId(I, F)

(***************************************************************************)
(* Specifications.  The handlers are the same in all of them; they differ  *)
(* in the requests that are sent.                                          *)
(***************************************************************************)
\* The database is reachable ("none") or the query fails with this error.
NoFault == {"none"}
StoreFaults == {"none", "ECONNREFUSED"}

MongoUntouched == mongo = {} /\ mongoSeq = 0
PostgresUntouched == pg = {} /\ pgSeq = PgSeqStart

\* Spec: the ten routes interleaved, every id segment, a store that may
\* fail, and a few bodies.
FewCreateBodies == {Body(Str(Ann), Str(AnnEmail), Undef, Undef)}
FewUpdateBodies ==
  {Body(Undef, Undef, Num(26), Undef),
   Body(Undef, Undef, Num(AgeMax + 1), Undef)}

Next ==
  \/ MongoRoutes(IdTexts, FewCreateBodies, FewUpdateBodies, StoreFaults)
  \/ PostgresRoutes(IdTexts, FewCreateBodies, FewUpdateBodies, StoreFaults)
  \/ Done
Spec == Init /\ [][Next]_vars

\* The ids of the first record of each store, and an id of no record.
FewIds == {ObjectIdOf(1), DecText(PgSeqStart + 1), AbsentObjectId, AbsentRowId}

\* SpecCreate: every POST body, on runs that write one of the two stores.
NextCreate ==
  \/ /\ PostgresUntouched
     /\ MongoRoutes(FewIds, CreateBodies, {NoBody}, NoFault)
  \/ /\ MongoUntouched
     /\ PostgresRoutes(FewIds, CreateBodies, {NoBody}, NoFault)
  \/ Done
SpecCreate == Init /\ [][NextCreate]_vars

\* SpecUpdate: every PUT body, on runs that write one of the two stores.
TwoCreateBodies ==
  {Body(Str(Ann), Str(AnnEmail), Undef, Undef),
   Body(Str(BoPadded), Str(BoEmail), Str(Thirty), Undef)}
NextUpdate ==
  \/ /\ PostgresUntouched
     /\ MongoRoutes(FewIds, TwoCreateBodies, UpdateBodies, NoFault)
  \/ /\ MongoUntouched
     /\ PostgresRoutes(FewIds, TwoCreateBodies, UpdateBodies, NoFault)
  \/ Done
SpecUpdate == Init /\ [][NextUpdate]_vars

(***************************************************************************)
(* Requests handled at the same time.  A handler runs without interruption *)
(* up to its await, and again from the moment the awaited store call       *)
(* settles to its response; in between, the handlers of other requests     *)
(* run.  Receive is the first part (the clock is read for the stamp of the *)
(* write), Settle the store call taking effect and the handler answering,  *)
(* Finish the end of the requests answered meanwhile.                      *)
(***************************************************************************)
\* The callers whose handler stands at pc: "free" (no request),
\* "awaiting" (its store call) or "answered".
At(pc) == {c \in Callers : calls.at[c].pc = pc}

Receive(c, Q) ==
  /\ Idle
  /\ c \in At("free")
  /\ \E q \in Q, t \in Stamps :
       \* the requests in flight are for one backend, and the other store
       \* has never been written
       /\ \A d \in Callers : calls.at[d].q.backend \in {"none", q.backend}
       /\ IF q.backend = "mongo" THEN PostgresUntouched ELSE MongoUntouched
       \* the creates in flight count towards the bound
       /\ q.op = "create" =>
            \E n \in {Cardinality({d \in At("awaiting") :
                                     calls.at[d].q.op = "create"})} :
              IF q.backend = "mongo" THEN mongoSeq + n < MaxCreates
              ELSE pgSeq + n < PgSeqStart + MaxCreates
       /\ calls' = [calls EXCEPT !.at[c] = [pc |-> "awaiting", q |-> q,
                                            t |-> t, res |-> NoResponse]]
       /\ now' = t
  /\ UNCHANGED <<mongo, mongoSeq, pg, pgSeq, req, res, proc>>

\* The store a store call runs against: as it was when the first of the
\* requests in flight was received.
StoreAtReceipt == calls.base
\* The store a store call runs against: as it is when the call takes effect.
StoreAtCall == Stores

Settle(c) ==
  /\ c \in At("awaiting")
  /\ \E h \in {Handle(calls.at[c].q, StoreAtCall, calls.at[c].t, "none")} :
       /\ mongo' = h.st.mongo
       /\ mongoSeq' = h.st.mongoSeq
       /\ pg' = h.st.pg
       /\ pgSeq' = h.st.pgSeq
       /\ calls' = [calls EXCEPT !.at[c].pc = "answered",
                                 !.at[c].res = h.res]
  /\ UNCHANGED <<now, req, res, proc>>

Finish ==
  /\ At("awaiting") = {}
  /\ At("answered") # {}
  /\ calls' = NoCalls(Stores)
  /\ UNCHANGED <<mongo, mongoSeq, pg, pgSeq, now, req, res, proc>>

\* The id of the first record of a store.
FirstId(backend) ==
  IF backend = "mongo" THEN ObjectIdOf(1) ELSE DecText(PgSeqStart + 1)

\* SpecConcurrent: creates whose emails differ in case only, and getById,
\* update and delete of the first record, two requests at a time.
ConcurrentRequests ==
  UNION {{Request(b, "create", <<>>, body) :
            body \in {Body(Str(Ann), Str(AnnEmail), Undef, Undef),
                      Body(Str(Bo), Str(AnnEmailUpper), Undef, Undef)}}
         \cup {Request(b, "update", FirstId(b), body) :
                 body \in {Body(Str(Bo), Undef, Undef, Undef),
                           Body(Undef, Undef, Num(26), Undef)}}
         \cup {Request(b, "getById", FirstId(b), NoBody),
               Request(b, "delete", FirstId(b), NoBody)}
         : b \in {"mongo", "postgres"}}

NextConcurrent ==
  \/ \E c \in Callers : Receive(c, ConcurrentRequests)
  \/ \E c \in Callers : Settle(c)
  \/ Finish
SpecConcurrent == Init /\ [][NextConcurrent]_vars

(***************************************************************************)
(* The process: server.js, config/mongoDb.js and config/prismaDb.js.       *)
(* startServer awaits connectMongoDB, then connectPostgreSQL, then calls   *)
(* app.listen; each module registers its own signal handlers, which all    *)
(* run when the signal arrives and whose awaits and timer complete in any  *)
(* order; process.exit ends the process at once.                           *)
(***************************************************************************)
Exit(p, code, by) == [p EXCEPT !.exited = TRUE, !.code = code, !.by = by]

\* connectMongoDB carrying on after a failed connection.
connectMongoDBSwallowing(p, ok) ==
  IF ok
    THEN [p EXCEPT !.mongoConn = "open", !.connected = Append(@, "mongo"),
                   !.pc = "connectPostgreSQL"]
  ELSE [p EXCEPT !.failed = "mongo", !.pc = "connectPostgreSQL"]

\* mongoose.connect resolves, or rejects and the catch exits.
connectMongoDB(p, ok) ==
  IF ok
    THEN [p EXCEPT !.mongoConn = "open", !.connected = Append(@, "mongo"),
                   !.pc = "connectPostgreSQL"]
  ELSE Exit([p EXCEPT !.failed = "mongo"], 1, "connectMongoDB")

\* prisma.$connect resolves, or rejects and the error is thrown on.
connectPostgreSQL(p, ok) ==
  IF ok
    THEN [p EXCEPT !.prismaConn = "open",
                   !.connected = Append(@, "postgres")]
  ELSE [p EXCEPT !.failed = "postgres"]

\* The rest of initializeDatabases and startServer once connectPostgreSQL
\* has settled: exit on a failure, app.listen otherwise.
startServer(p) ==
  IF p.failed # "none" THEN Exit(p, 1, "initializeDatabases")
  ELSE [p EXCEPT !.server = "listening", !.pc = "listening"]


MongoConnect ==
  /\ ~proc.exited
  /\ proc.pc = "connectMongoDB"
  /\ \E ok \in BOOLEAN : proc' = connectMongoDB(proc, ok)
  /\ UNCHANGED <<mongo, mongoSeq, pg, pgSeq, now, req, res, calls>>

PostgresConnect ==
  /\ ~proc.exited
  /\ proc.pc = "connectPostgreSQL"
  /\ \E ok \in BOOLEAN : proc' = startServer(connectPostgreSQL(proc, ok))
  /\ UNCHANGED <<mongo, mongoSeq, pg, pgSeq, now, req, res, calls>>

\* What the handlers registered for a signal start before any of them
\* awaits: mongoDb.js listens for SIGINT only, prismaDb.js and server.js for
\* both signals.
Started(sig) ==
  (IF sig = "SIGINT" THEN {"mongoose.connection.close"} ELSE {})
    \cup {"prisma.$disconnect", "setTimeout"}

\* gracefulShutdown: server.close() if the server exists.
gracefulShutdown(p, sig) ==
  [p EXCEPT !.server = IF @ = "none" THEN @ ELSE "closed",
            !.signals = @ \cup {sig},
            !.pending = @ \cup Started(sig)]

Signal ==
  /\ ~proc.exited
  /\ \E sig \in {"SIGINT", "SIGTERM"} :
       proc' = gracefulShutdown(proc, sig)
  /\ UNCHANGED <<mongo, mongoSeq, pg, pgSeq, now, req, res, calls>>

\* An await of a signal handler settles: the connection is closed and the
\* handler's continuation is due, or the call has failed and its catch
\* exits.
Settled(p, call, conn, next, ok, by) ==
  IF ok
    THEN [p EXCEPT ![conn] = "closed",
                   !.pending = (@ \ {call}) \cup {next}]
  ELSE Exit([p EXCEPT !.pending = @ \ {call}], 1, by)

MongoClose ==
  /\ ~proc.exited
  /\ "mongoose.connection.close" \in proc.pending
  /\ \E ok \in BOOLEAN :
       proc' = Settled(proc, "mongoose.connection.close", "mongoConn",
                       "mongoDb exit", ok, "mongoDb")
  /\ UNCHANGED <<mongo, mongoSeq, pg, pgSeq, now, req, res, calls>>

disconnectPostgreSQL ==
  /\ ~proc.exited
  /\ "prisma.$disconnect" \in proc.pending
  /\ \E ok \in BOOLEAN :
       proc' = Settled(proc, "prisma.$disconnect", "prismaConn",
                       "prismaDb exit", ok, "disconnectPostgreSQL")
  /\ UNCHANGED <<mongo, mongoSeq, pg, pgSeq, now, req, res, calls>>

\* process.exit(0) after the await of a signal handler, or in the timer of
\* gracefulShutdown.
ProcessExit ==
  /\ ~proc.exited
  /\ \E due \in {"mongoDb exit", "prismaDb exit", "setTimeout"}
                  \cap proc.pending :
       proc' = Exit([proc EXCEPT !.pending = @ \ {due}], 0,
                    CASE due = "mongoDb exit" -> "mongoDb"
                      [] due = "prismaDb exit" -> "prismaDb"
                      [] due = "setTimeout" -> "gracefulShutdown")
  /\ UNCHANGED <<mongo, mongoSeq, pg, pgSeq, now, req, res, calls>>

InitProcess ==
  /\ mongo = {}
  /\ mongoSeq = 0
  /\ pg = {}
  /\ pgSeq = PgSeqStart
  /\ now = 0
  /\ req = NoRequest
  /\ res = NoResponse
  /\ calls = NoCalls(Stores)
  /\ proc = Starting

NextProcess ==
  \/ MongoConnect
  \/ PostgresConnect
  \/ Signal
  \/ MongoClose
  \/ disconnectPostgreSQL
  \/ ProcessExit
SpecProcess == InitProcess /\ [][NextProcess]_vars

(***************************************************************************)
(* The ageGroup virtual of models/User.js, and the JSON form of a document *)
(* (toJSON: { virtuals: true }) a mongo handler sends.                     *)
(***************************************************************************)
ageGroup(age) ==
  IF ~Truthy(age) THEN "Unknown"
  ELSE IF age.n < 18 THEN "Minor"
  ELSE IF age.n < 65 THEN "Adult"
  ELSE "Senior"

toJSON(d) ==
  [_id |-> d._id, name |-> d.name, email |-> d.email, age |-> d.age,
   role |-> d.role, createdAt |-> d.createdAt, updatedAt |-> d.updatedAt,
   ageGroup |-> ageGroup(d.age)]

\* SpecAgeGroup: a collection holding one user created with any age the
\* schema accepts (the ages next to the limits are tried and rejected),
\* read back through GET /api/users/mongo/:id.
InitAgeGroup ==
  /\ mongo \in {MongooseCreate({}, Body(Str(Ann), Str(AnnEmail), age, Undef),
                               ObjectIdOf(1), 0, "none").store :
                  age \in {Undef, Null}
                    \cup {Num(n) : n \in (AgeMin - 1)..(AgeMax + 1)}}
  /\ mongoSeq = Cardinality(mongo)
  /\ pg = {}
  /\ pgSeq = PgSeqStart
  /\ now = 0
  /\ req = NoRequest
  /\ res = NoResponse
  /\ calls = NoCalls(Stores)
  /\ proc = Serving

GetMongoIdJSON ==
  /\ Idle
  /\ \E h \in {getUserByIdFromMongo(mongo, ObjectIdOf(1), "none")} :
       /\ req' = Request("mongo", "getById", ObjectIdOf(1), NoBody)
       /\ res' = [h.res EXCEPT !.data = {toJSON(d) : d \in @}]
  /\ UNCHANGED <<mongo, mongoSeq, pg, pgSeq, now, calls, proc>>

NextAgeGroup == GetMongoIdJSON \/ Done
SpecAgeGroup == InitAgeGroup /\ [][NextAgeGroup]_vars

(***************************************************************************)
(* Vocabulary of the properties                                            *)
(***************************************************************************)
IdOps == {"getById", "update", "delete"}

\* The decimal text of a positive integer.
PositiveDecimal(s) ==
  /\ s # <<>>
  /\ \A i \in DOMAIN s : IsDigit(s[i])
  /\ \E i \in DOMAIN s : s[i] # "0"

\* The id segment is well formed for the backend.
ValidId(backend, id) ==
  IF backend = "mongo" THEN IsObjectIdText(id) ELSE PositiveDecimal(id)

\* The records of a backend among the documents docs and the rows rows.
RecordsOf(backend, docs, rows) == IF backend = "mongo" THEN docs ELSE rows

\* The record r of the backend is the one a well-formed id segment names.
Names(backend, id, r) ==
  IF backend = "mongo" THEN r._id = ToLowerCase(id)
  ELSE r.id = ReadDigits(id, 10, 0)

\* The records of the backend that a well-formed id segment names.
Named(backend, id, docs, rows) ==
  {r \in RecordsOf(backend, docs, rows) : Names(backend, id, r)}

\* The field rules: name 2..50 characters after trimming, email matching
\* the pattern, age in 0..150, role one of the enumerated values.
BreaksRule(body, k) == k \in InvalidPaths(CastDoc(body), {k})
\* Every supplied field of a PUT body satisfies its rule.
ValidUpdate(body) == \A k \in Supplied(body) : ~BreaksRule(body, k)

\* The ids the stores have assigned so far.
ObjectIdsAssigned == {ObjectIdOf(i) : i \in 1..mongoSeq}
RowIdsAssigned == {DecText(i) : i \in (PgSeqStart + 1)..pgSeq}

\* A handler has just responded to a request of this backend and kind.
Responded(backend, ops) == req.backend = backend /\ req.op \in ops

(***************************************************************************)
(* C1: on the mongo backend, getById, update and delete with an id that is *)
(* no well-formed ObjectId respond 400 "Invalid user ID" without querying  *)
(* the store (never 404, never 500).                                       *)
(***************************************************************************)
C1_MongoInvalidId ==
  (Responded("mongo", IdOps) /\ ~IsObjectIdText(req.id)) =>
    /\ res.code = 400
    /\ res.message = "Invalid user ID"
    /\ res.queried = 0

(***************************************************************************)
(* C2: on the postgres backend, getById, update and delete with an id      *)
(* segment that is not the decimal text of a positive integer respond 400  *)
(* "Invalid user ID" and make no store call.                               *)
(***************************************************************************)
C2_PostgresInvalidId ==
  (Responded("postgres", IdOps) /\ ~PositiveDecimal(req.id)) =>
    /\ res.code = 400
    /\ res.message = "Invalid user ID"
    /\ res.queried = 0

(***************************************************************************)
(* C3: ids are not interchangeable: getById, update and delete on the      *)
(* postgres backend with an id the document store has assigned reach no    *)
(* row, and on the mongo backend with an id the relational store has       *)
(* assigned reach no document.                                             *)
(***************************************************************************)
C3_IdsNotInterchangeable ==
  /\ (Responded("postgres", IdOps) /\ req.id \in ObjectIdsAssigned) =>
       res.data = {}
  /\ (Responded("mongo", IdOps) /\ req.id \in RowIdsAssigned) =>
       res.data = {}

(***************************************************************************)
(* C4 as stated: on both backends, getById, update and delete with a       *)
(* well-formed id that names no record respond 404 "User not found" and    *)
(* leave the store unchanged (the store answering).                        *)
(***************************************************************************)
NotFoundCase ==
  /\ Idle
  /\ req'.op \in IdOps
  /\ res'.fault = "none"
  /\ ValidId(req'.backend, req'.id)
  /\ Named(req'.backend, req'.id, mongo, pg) = {}

NotFoundResponse ==
  /\ res'.code = 404
  /\ res'.status = "error"
  /\ res'.message = "User not found"
  /\ mongo' = mongo
  /\ pg' = pg

DuplicateCreateCase ==
  /\ Idle
  /\ req'.op = "create"
  /\ res'.fault = "none"
  /\ InvalidPaths(CastDoc(req'.body), FieldNames) = {}
  /\ \E r \in RecordsOf(req'.backend, mongo, pg) :
       ToLowerCase(r.email.s) = ToLowerCase(req'.body.email.s)

DuplicateKeyResponse ==
  /\ res'.code = 400
  /\ res'.status = "error"
  /\ res'.message = "Email already exists"
  /\ mongo' = mongo
  /\ pg' = pg

C5_DuplicateEmailOnCreate ==
  [][DuplicateCreateCase => DuplicateKeyResponse]_vars

(***************************************************************************)
(* C6: an update that sets a record's email to the email of another record *)
(* of the same store responds 400 "Email already exists" (not 500) and     *)
(* leaves both records unchanged.                                          *)
(***************************************************************************)
DuplicateUpdateCase ==
  /\ Idle
  /\ req'.op = "update"
  /\ res'.fault = "none"
  /\ ValidId(req'.backend, req'.id)
  /\ "email" \in Supplied(req'.body)
  /\ \E target \in Named(req'.backend, req'.id, mongo, pg) :
       \E other \in RecordsOf(req'.backend, mongo, pg) \ {target} :
         other.email = req'.body.email

C6_DuplicateEmailOnUpdate ==
  [][DuplicateUpdateCase => DuplicateKeyResponse]_vars

(***************************************************************************)
(* C7: on both backends a create whose name or email is missing or         *)
(* malformed, whose age is outside 0..150 or whose role is not enumerated  *)
(* responds 400 with status "error" and stores nothing.                    *)
(***************************************************************************)
C7_InvalidCreateRejected ==
  (req.op = "create" /\ InvalidPaths(CastDoc(req.body), FieldNames) # {}) =>
    /\ res.code = 400
    /\ res.status = "error"
    /\ res.data = {}

(***************************************************************************)
(* C8: on both backends an update of an existing record responds 400       *)
(* exactly when a supplied field breaks its rule (the store answering, the *)
(* supplied email not taken by another record).                            *)
(***************************************************************************)
EmailTaken ==
  \E other \in RecordsOf(req.backend, mongo, pg)
                 \ Named(req.backend, req.id, mongo, pg) :
    other.email \in {req.body.email, CastEmail(req.body.email)}

C8_UpdateValidation ==
  (/\ req.op = "update"
   /\ res.fault = "none"
   /\ ValidId(req.backend, req.id)
   /\ Named(req.backend, req.id, mongo, pg) # {}
   /\ ~EmailTaken) =>
    (res.code = 400 <=> ~ValidUpdate(req.body))

(***************************************************************************)
(* C9: on both backends, after a successful update the record returned is  *)
(* the record stored, and each of name, email, age, role that the payload  *)
(* does not carry, as well as the id and createdAt, is as it was before    *)
(* the call; no other record changes.                                      *)
(***************************************************************************)
SameKey(backend, r, q) ==
  IF backend = "mongo" THEN r._id = q._id ELSE r.id = q.id

UpdateKeepsUnsupplied ==
  (Idle /\ req'.op = "update" /\ res'.code = 200) =>
    /\ res'.data # {}
    /\ \A new \in res'.data :
         /\ new \in RecordsOf(req'.backend, mongo', pg')
         /\ \E old \in RecordsOf(req'.backend, mongo, pg) :
              /\ SameKey(req'.backend, old, new)
              /\ old.createdAt = new.createdAt
              /\ \A k \in FieldNames \ Supplied(req'.body) : new[k] = old[k]
              /\ RecordsOf(req'.backend, mongo', pg') \ {new}
                   = RecordsOf(req'.backend, mongo, pg) \ {old}

C9_UnsuppliedFieldsKept == [][UpdateKeepsUnsupplied]_vars

\* A successful update that carried no age has returned a record that
\* still has its age, a number.
C9_Witness ==
  /\ req.op = "update"
  /\ res.code = 200
  /\ Supplied(req.body) = {"name"}
  /\ \E r \in res.data : r.age.t = "number" /\ r.updatedAt > r.createdAt

(***************************************************************************)
(* C10: on both backends, after a successful update every field the        *)
(* payload carries with a valid value (age 0 included) has, in the record  *)
(* stored and returned, the supplied value after normalisation (name       *)
(* trimmed, email lowercased, age a number).                               *)
(***************************************************************************)
C10_SuppliedFieldsStored ==
  (req.op = "update" /\ res.code = 200) =>
    \A r \in res.data :
      /\ r \in RecordsOf(req.backend, mongo, pg)
      /\ \A k \in Supplied(req.body) :
           ~BreaksRule(req.body, k) => r[k] = CastDoc(req.body)[k]

(***************************************************************************)
(* C11: no update request, whatever keys its body carries (_id, id and     *)
(* createdAt included), changes the id or the createdAt of a record: an    *)
(* update leaves the (id, createdAt) pairs of both stores as they were,    *)
(* and over every step a record that stays keeps its createdAt.            *)
(***************************************************************************)
IdStamps(backend, docs, rows) ==
  IF backend = "mongo" THEN {<<d._id, d.createdAt>> : d \in docs}
  ELSE {<<r.id, r.createdAt>> : r \in rows}

Backends == {"mongo", "postgres"}

KeepsIdAndCreatedAt ==
  /\ (Idle /\ req'.op = "update") =>
       \A b \in Backends : IdStamps(b, mongo', pg') = IdStamps(b, mongo, pg)
  /\ \A b \in Backends :
       \A old \in RecordsOf(b, mongo, pg), new \in RecordsOf(b, mongo', pg') :
         SameKey(b, old, new) => old.createdAt = new.createdAt

C11_IdAndCreatedAtConstant == [][KeepsIdAndCreatedAt]_vars

\* An update whose body carried id and createdAt keys has succeeded, and
\* the record has another createdAt than the one sent.
C11_Witness ==
  /\ req.op = "update"
  /\ req.body.id.t = "number"
  /\ req.body.createdAt.t = "number"
  /\ res.code = 200
  /\ \E r \in res.data : r.createdAt # req.body.createdAt.n

(***************************************************************************)
(* C12: on both backends every successful update, one that changes no      *)
(* field value included, leaves the record's updatedAt strictly greater    *)
(* than it was before the update.                                          *)
(***************************************************************************)
UpdatedAtIncreases ==
  (Idle /\ req'.op = "update" /\ res'.code = 200) =>
    \A new \in res'.data :
      \E old \in RecordsOf(req'.backend, mongo, pg) :
        SameKey(req'.backend, old, new) /\ new.updatedAt > old.updatedAt

C12_UpdatedAtIncreases == [][UpdatedAtIncreases]_vars

(***************************************************************************)
(* C13: on both backends a create whose payload satisfies the field rules  *)
(* (its email free in the store, the store answering) responds 201 with    *)
(* one record that has a new id and createdAt = updatedAt, and a getById   *)
(* with that id on the store the create leaves responds 200 with the same  *)
(* record.                                                                 *)
(***************************************************************************)
ValidCreateCase ==
  /\ Idle
  /\ req'.op = "create"
  /\ res'.fault = "none"
  /\ InvalidPaths(CastDoc(req'.body), FieldNames) = {}
  /\ \A r \in RecordsOf(req'.backend, mongo, pg) :
       CastEmail(r.email) # CastEmail(req'.body.email)

\* The response of a getById for the record r, sent right after this step.
GetByIdNext(backend, r) ==
  IF backend = "mongo" THEN getUserByIdFromMongo(mongo', r._id, "none").res
  ELSE getUserByIdFromPostgres([rows |-> pg', seq |-> pgSeq'],
                               DecText(r.id), "none").res

CreateRoundTrip ==
  ValidCreateCase =>
    /\ res'.code = 201
    /\ res'.status = "success"
    /\ Cardinality(res'.data) = 1
    /\ \A r \in res'.data :
         /\ r.createdAt = r.updatedAt
         /\ \A old \in RecordsOf(req'.backend, mongo, pg) :
              ~SameKey(req'.backend, old, r)
         /\ GetByIdNext(req'.backend, r).code = 200
         /\ GetByIdNext(req'.backend, r).data = {r}

C13_CreateThenGet == [][CreateRoundTrip]_vars

\* A create with a padded name and a text age has been answered 201 while
\* the store already held a record.
C13_Witness ==
  /\ req.op = "create"
  /\ res.code = 201
  /\ req.body.name = Str(BoPadded)
  /\ Cardinality(RecordsOf(req.backend, mongo, pg)) = 2

(***************************************************************************)
(* C14: on both backends a create whose payload carries only name and      *)
(* email (valid, the email free, the store answering) responds 201 and the *)
(* record stored has role "USER" and no age (absent or null); a role among *)
(* USER, ADMIN, MODERATOR that the payload carries is stored as supplied.  *)
(***************************************************************************)
CreateDefaults ==
  ValidCreateCase =>
    /\ res'.code = 201
    /\ \A r \in res'.data :
         /\ r \in RecordsOf(req'.backend, mongo', pg')
         /\ Supplied(req'.body) = {"name", "email"} =>
              r.role = Str(USER) /\ r.age.t \in {"undefined", "null"}
         /\ "role" \in Supplied(req'.body) => r.role = req'.body.role

C14_CreateDefaults == [][CreateDefaults]_vars

\* A create with only name and email has stored a record with role USER,
\* and the store also holds a record created with role ADMIN.
C14_Witness ==
  /\ req.op = "create"
  /\ res.code = 201
  /\ Supplied(req.body) = {"name", "email"}
  /\ \E r \in res.data : r.role = Str(USER)
  /\ \E r \in RecordsOf(req.backend, mongo, pg) : r.role = Str(ADMIN)

(***************************************************************************)
(* C15: on the postgres backend a successful create whose age is an        *)
(* integer n of 0..150, sent as a number or as its decimal text, stores    *)
(* and returns a record whose age is the number n ("30" gives 30, 0 gives  *)
(* 0 and not null).                                                        *)
(***************************************************************************)
AgeInRange(v) ==
  /\ v.t \in {"number", "string"}
  /\ CastAge(v).t = "number"
  /\ CastAge(v).n \in AgeMin..AgeMax

C15_PostgresAgeCoerced ==
  (/\ req.backend = "postgres"
   /\ req.op = "create"
   /\ res.code = 201
   /\ AgeInRange(req.body.age)) =>
    \A r \in res.data :
      /\ r \in pg
      /\ r.age = CastAge(req.body.age)

(***************************************************************************)
(* C16: on both backends the record stored and returned by a successful    *)
(* create or update has a name without leading or trailing white space and *)
(* an email in lower case, whatever the payload's casing and padding.      *)
(***************************************************************************)
C16_Normalised ==
  (req.op \in {"create", "update"} /\ res.code \in {200, 201}) =>
    \A r \in res.data :
      /\ r \in RecordsOf(req.backend, mongo, pg)
      /\ r.name.s = Trim(r.name.s)
      /\ r.email.s = ToLowerCase(r.email.s)

(***************************************************************************)
(* C17 as stated: a delete of an existing id responds 200 with the record  *)
(* as it was just before removal, and delete is terminal: an id that was   *)
(* assigned and names no record any more never names one again, every      *)
(* getById, update and delete for it responds 404 "User not found", and    *)
(* list does not return it (the store answering).                          *)
(***************************************************************************)
\* The id was assigned by the store and names none of its records.
Gone(backend, id, docs, rows) ==
  /\ id \in (IF backend = "mongo" THEN ObjectIdsAssigned ELSE RowIdsAssigned)
  /\ Named(backend, id, docs, rows) = {}

DeleteSnapshot ==
  (/\ Idle
   /\ req'.op = "delete"
   /\ res'.fault = "none"
   /\ ValidId(req'.backend, req'.id)
   /\ Named(req'.backend, req'.id, mongo, pg) # {}) =>
    /\ res'.code = 200
    /\ res'.data = Named(req'.backend, req'.id, mongo, pg)
    /\ RecordsOf(req'.backend, mongo', pg')
         = RecordsOf(req'.backend, mongo, pg) \ res'.data

\* A record of the next state whose id was assigned before the step is a
\* record that was there before the step: no id comes back.
StaysGone ==
  /\ \A d \in mongo' :
       d._id \in ObjectIdsAssigned => \E o \in mongo : o._id = d._id
  /\ \A r \in pg' :
       r.id \in (PgSeqStart + 1)..pgSeq => \E o \in pg : o.id = r.id

GoneCase ==
  /\ Idle
  /\ req'.op \in IdOps
  /\ res'.fault = "none"
  /\ Gone(req'.backend, req'.id, mongo, pg)

ListOmitsGone ==
  (Idle /\ req'.op = "list") =>
    \A r \in res'.data :
      \E o \in RecordsOf(req'.backend, mongo, pg) :
        SameKey(req'.backend, o, r)

GoneResponse == res'.code = 404 /\ res'.message = "User not found"

ListAll ==
  (Idle /\ req'.op = "list") =>
    /\ mongo' = mongo
    /\ pg' = pg
    /\ res'.fault = "none" =>
         /\ res'.code = 200
         /\ res'.status = "success"
         /\ res'.data = RecordsOf(req'.backend, mongo, pg)
         /\ res'.results = Cardinality(RecordsOf(req'.backend, mongo, pg))
    /\ res'.fault # "none" => res'.code = 500
    /\ res'.code \in {200, 500}

C18_ListAll == [][ListAll]_vars

\* A list of a store that holds one record, another having been deleted,
\* has been answered with results 1.
C18_Witness ==
  /\ req.op = "list"
  /\ res.code = 200
  /\ res.results = 1
  /\ \E id \in ObjectIdsAssigned \cup RowIdsAssigned :
       Gone(req.backend, id, mongo, pg)

(***************************************************************************)
(* C19: on both backends an update of an existing record with the empty    *)
(* payload {} responds 200 with the current record, and every field of it  *)
(* other than updatedAt is, in the store, as it was.                       *)
(***************************************************************************)
EmptyUpdate ==
  (/\ Idle
   /\ req'.op = "update"
   /\ req'.body = NoBody
   /\ res'.fault = "none"
   /\ ValidId(req'.backend, req'.id)
   /\ Named(req'.backend, req'.id, mongo, pg) # {}) =>
    /\ res'.code = 200
    /\ res'.status = "success"
    /\ Cardinality(res'.data) = 1
    /\ \A new \in res'.data :
         \E old \in Named(req'.backend, req'.id, mongo, pg) :
           /\ new = [old EXCEPT !.updatedAt = new.updatedAt]
           /\ RecordsOf(req'.backend, mongo', pg')
                = (RecordsOf(req'.backend, mongo, pg) \ {old}) \cup {new}

C19_EmptyUpdate == [][EmptyUpdate]_vars

\* An update with the payload {} of a record that has an age has been
\* answered 200.
C19_Witness ==
  /\ req.op = "update"
  /\ req.body = NoBody
  /\ res.code = 200
  /\ \E r \in res.data : r.age.t = "number"

(***************************************************************************)
(* C20: a request of the mongo backend leaves the relational store as it   *)
(* was and a request of the postgres backend leaves the document store as  *)
(* it was; a valid create whose email is free in its own store succeeds    *)
(* whatever the other store holds, so one email can be created once in     *)
(* each store.                                                             *)
(***************************************************************************)
BackendsIndependent ==
  /\ (Idle /\ req'.backend = "mongo") => (pg' = pg /\ pgSeq' = pgSeq)
  /\ (Idle /\ req'.backend = "postgres") =>
       (mongo' = mongo /\ mongoSeq' = mongoSeq)
  /\ ValidCreateCase =>
       /\ res'.code = 201
       /\ res'.data \subseteq RecordsOf(req'.backend, mongo', pg')

C20_BackendsIndependent == [][BackendsIndependent]_vars

\* A create has succeeded in one store with the email of a record of the
\* other store.
C20_Witness ==
  /\ req.op = "create"
  /\ res.code = 201
  /\ \E d \in mongo : \E r \in pg : d.email = r.email

(***************************************************************************)
(* C21: a store failure that is not a not-found, duplicate-key, invalid-id *)
(* or validation outcome (the query fails) is answered 500 with status     *)
(* "error", a message and the error's detail under `error`; and a 500 is   *)
(* sent for such a failure only.                                           *)
(***************************************************************************)
C21_ServerErrorOnlyOnStoreFailure ==
  /\ res.fault # "none" =>
       /\ res.code = 500
       /\ res.status = "error"
       /\ res.message # "none"
       /\ res.error = res.fault
  /\ res.code = 500 => res.fault # "none"


(***************************************************************************)
(* C22: a response with status "success" has code 201 for create and 200   *)
(* for list, getById, update and delete; a 2xx response never has status   *)
(* "error" and a 4xx or 5xx response never has status "success".           *)
(***************************************************************************)
SuccessCode(op) == IF op = "create" THEN 201 ELSE 200

C22_StatusMatchesCode ==
  ~Idle =>
    /\ res.status \in {"success", "error"}
    /\ res.status = "success" => res.code = SuccessCode(req.op)
    /\ res.code \in 200..299 => res.status = "success"
    /\ res.code \in 400..599 => res.status = "error"
    /\ res.code \in (200..299) \cup (400..599)

C22_Witness ==
  /\ Responded("mongo", {"create"})
  /\ res.code = 201
  /\ res.status = "success"


(***************************************************************************)
(* C23: every error response carries a message, and the response to a      *)
(* failing store call is the same whatever the detail of the store's       *)
(* error, except for the `error` field: the same request against the same  *)
(* store failing with another detail gets the same code, status, message   *)
(* and data.                                                               *)
(***************************************************************************)
ErrorDetails == {"ECONNREFUSED", "ETIMEDOUT"}

SameButDetail(o, r, detail) ==
  /\ o.code = r.code
  /\ o.status = r.status
  /\ o.message = r.message
  /\ o.results = r.results
  /\ o.data = r.data
  /\ o.error = detail

MessageStable ==
  (Idle /\ res'.status = "error") =>
    /\ res'.message # "none"
    /\ res'.fault # "none" =>
         \A detail \in ErrorDetails :
           SameButDetail(Handle(req', Stores, now, detail).res, res', detail)

C23_MessageStable == [][MessageStable]_vars

\* A store call has failed and the handler has answered with its message
\* and the error's detail.
C23_Witness ==
  /\ res.fault = "ECONNREFUSED"
  /\ res.error = "ECONNREFUSED"
  /\ res.message = "Failed to create user in PostgreSQL"


(***************************************************************************)
(* C24: a request makes at most one store call: a handler that answers     *)
(* before its store call makes none, every other makes exactly one; a      *)
(* failed call is answered at once (500) and is not repeated, and an       *)
(* update or delete is not followed by a second read.                      *)
(***************************************************************************)
C24_OneStoreCall ==
  ~Idle =>
    /\ res.queried \in {0, 1}
    /\ res.fault # "none" => (res.queried = 1 /\ res.code = 500)
    /\ res.code \in {200, 201, 404} => res.queried = 1

C24_Witness ==
  /\ Responded("mongo", {"update"})
  /\ res.code = 200
  /\ res.queried = 1


(***************************************************************************)
(* C25: requests for the same id handled at the same time on one backend   *)
(* leave the responses and the store of some sequential execution of the   *)
(* same requests (each with the clock reading its handler took): once the  *)
(* requests in flight are answered, running them one after the other in    *)
(* some order from the store before them gives the same responses and the  *)
(* same store; and none of them is answered 500.                           *)
(***************************************************************************)
\* The handler of caller c run alone against the store st.
Alone(c, st) == Handle(calls.at[c].q, st, calls.at[c].t, "none")

SerialOne(c) ==
  With(Alone(c, calls.base), LAMBDA h :
    /\ h.res = calls.at[c].res
    /\ h.st = Stores)

SerialOrder(first, second) ==
  With(Alone(first, calls.base), LAMBDA h1 :
    /\ h1.res = calls.at[first].res
    /\ With(Alone(second, h1.st), LAMBDA h2 :
         /\ h2.res = calls.at[second].res
         /\ h2.st = Stores))

Serializable ==
  \/ At("answered") = {}
  \/ At("awaiting") # {}
  \/ \E c \in Callers :
       /\ At("answered") = {c}
       /\ SerialOne(c)
  \/ \E c \in Callers, d \in Callers :
       /\ c # d
       /\ At("answered") = {c, d}
       /\ SerialOrder(c, d)

EmailKey(v) == CastEmail(v)

WithEmail(records, key) == {r \in records : EmailKey(r.email) = key}

CreatePair(c, d) ==
  /\ c # d
  /\ At("answered") = {c, d}
  /\ calls.at[c].q.op = "create"
  /\ calls.at[d].q.op = "create"
  /\ calls.at[c].q.backend = calls.at[d].q.backend
  /\ EmailKey(calls.at[c].q.body.email) = EmailKey(calls.at[d].q.body.email)
  /\ WithEmail(RecordsOf(calls.at[c].q.backend, calls.base.mongo,
                         calls.base.pg),
               EmailKey(calls.at[c].q.body.email)) = {}

C26_OneCreateWins ==
  \A c \in Callers, d \in Callers :
    CreatePair(c, d) =>
      /\ {calls.at[c].res.code, calls.at[d].res.code} = {201, 400}
      /\ \A e \in {c, d} :
           calls.at[e].res.code = 400 =>
             calls.at[e].res.message = "Email already exists"
      /\ Cardinality(WithEmail(RecordsOf(calls.at[c].q.backend, mongo, pg),
                               EmailKey(calls.at[c].q.body.email))) = 1


(***************************************************************************)
(* C27: when the process exits after SIGINT or SIGTERM through one of the  *)
(* signal handlers, the MongoDB connection and the Prisma client have both *)
(* been disconnected: it never exits on a signal with a store connection   *)
(* still open.                                                             *)
(***************************************************************************)
SignalExits == {"mongoDb", "prismaDb", "gracefulShutdown"}

C27_DisconnectedBeforeExit ==
  (proc.exited /\ proc.by \in SignalExits) =>
    /\ proc.mongoConn = "closed"
    /\ proc.prismaConn = "closed"

(***************************************************************************)
(* C28: the server listens only after connectMongoDB and then              *)
(* connectPostgreSQL have succeeded; when either connection fails the      *)
(* process exits with code 1 and the server never listens.                 *)
(***************************************************************************)
C28_ListenAfterConnects ==
  /\ proc.server # "none" =>
       /\ proc.connected = <<"mongo", "postgres">>
       /\ proc.failed = "none"
  /\ proc.failed # "none" =>
       /\ proc.exited
       /\ proc.code = 1
       /\ proc.server = "none"

\* startServer has run through and the server listens.
C28_Witness ==
  /\ proc.server = "listening"
  /\ proc.connected = <<"mongo", "postgres">>
  /\ ~proc.exited


AgeGroupOf(age) ==
  IF age.t # "number" THEN "Unknown"
  ELSE IF age.n < 18 THEN "Minor"
  ELSE IF age.n < 65 THEN "Adult"
  ELSE "Senior"

C30_AgeGroup ==
  Responded("mongo", {"getById"}) =>
    \A user \in res.data : user.ageGroup = AgeGroupOf(user.age)

=============================================================================
